---- MODULE Spec2Model ----
(***************************************************************************)
(* Karaoke-Processor-GUI: the build pipeline of karaoke_processor.py       *)
(* (ProcessingThread.run, SongProcessor, IndexBuilder) and the query API   *)
(* of api_search.py (search, calculate_score, get_song).                   *)
(*                                                                         *)
(* Text is a sequence of one-character strings, a blob is its byte length, *)
(* a zip archive is the sequence of its entries.                           *)
(***************************************************************************)
EXTENDS Integers, Sequences, FiniteSets, TLC

\* ------------------------------------------------------------------ bounds
\* Number of records parse_records hands to the pipeline.
NumTracks == 3
\* A compressed blob is 1 byte or MaxBlob bytes long.
MaxBlob == 2
\* batch_size is MaxBatchSize - 1 or MaxBatchSize.
MaxBatchSize == 2
\* limit_bytes is MaxLimit - 1 or MaxLimit.
MaxLimit == 3
\* Number of request handler threads that call get_chunk at the same time.
NumHandlers == 2
\* The shard ceiling of build_index (5 * 1024 * 1024 in the code), scaled to
\* the model's short texts.
ShardMaxBytes == 90

\* A DBF file is at most MaxBufferLen bytes long.
MaxBufferLen == 5
\* header_length is 0..MaxHeaderLength.
MaxHeaderLength == 1
\* record_length is 1..MaxRecordLength.
MaxRecordLength == 2

\* Optional[int] = None
None == -1

\* ------------------------------------------------------------------- text
\* The characters of the model's texts are a, b, A, B, 1, the space and the
\* hyphen.
\* str.lower(), one character.
LowerChar(c) == CASE c = "A" -> "a" [] c = "B" -> "b" [] OTHER -> c

\* str.lower()
Lower(s) == [k \in 1..Len(s) |-> LowerChar(s[k])]

\* ord(), the order Python compares strings by.
Ord(c) ==
    CASE c = " " -> 32 [] c = "-" -> 45 [] c = "1" -> 49 [] c = "A" -> 65
      [] c = "B" -> 66 [] c = "a" -> 97 [] c = "b" -> 98

\* The character class [a-zA-Z\d\u0e00-\u0e7f] of _extract_words.
IsWordChar(c) == c \in {"a", "b", "A", "B", "1"}

\* f"{x} {y}"
JoinSpace(x, y) == x \o <<" ">> \o y

\* str.startswith
StartsWith(s, p) == Len(p) <= Len(s) /\ SubSeq(s, 1, Len(p)) = p

\* term in text
IsSubstring(term, text) ==
    \E k \in 0..(Len(text) - Len(term)) : SubSeq(text, k + 1, k + Len(term)) = term

\* Python's < on str: lexicographic by code point.
RECURSIVE StrLess(_, _)
StrLess(x, y) ==
    IF y = <<>> THEN FALSE
    ELSE IF x = <<>> THEN TRUE
    ELSE IF Ord(Head(x)) # Ord(Head(y)) THEN Ord(Head(x)) < Ord(Head(y))
    ELSE StrLess(Tail(x), Tail(y))

\* re.findall(r'[...]+', text): the maximal runs of word characters, in order.
RECURSIVE FindAll(_, _)
FindAll(text, run) ==
    IF text = <<>> THEN (IF run = <<>> THEN <<>> ELSE <<run>>)
    ELSE IF IsWordChar(Head(text)) THEN FindAll(Tail(text), Append(run, Head(text)))
    ELSE (IF run = <<>> THEN <<>> ELSE <<run>>) \o FindAll(Tail(text), <<>>)

IsLongWord(w) == Len(w) > 1

\* IndexBuilder._extract_words
ExtractWords(text) == SelectSeq(FindAll(Lower(text), <<>>), IsLongWord)

\* sorted(keys): ascending, by repeatedly taking the least.
RECURSIVE Sorted(_)
Sorted(S) ==
    IF S = {} THEN <<>>
    ELSE LET m == CHOOSE x \in S : \A y \in S \ {x} : StrLess(x, y)
         IN  <<m>> \o Sorted(S \ {m})

\* ------------------------------------------------------------------- JSON
\* len(json.dumps(s)) of a text of the alphabet (no character is escaped).
JsonStrLen(s) == 2 + Len(s)

\* len(str(n))
JsonIntLen(n) == IF n < 10 THEN 1 ELSE 2

\* len(json.dumps(preview)): {"t": "..", "a": "..", "i": 0, "s": 0}
PreviewLenDefault(p) ==
    1 + (5 + JsonStrLen(p.t)) + 2 + (5 + JsonStrLen(p.a)) + 2
      + (5 + JsonIntLen(p.i)) + 2 + (5 + JsonIntLen(p.s)) + 1

\* the same with separators=(',', ':')
PreviewLenCompact(p) ==
    1 + (4 + JsonStrLen(p.t)) + 1 + (4 + JsonStrLen(p.a)) + 1
      + (4 + JsonIntLen(p.i)) + 1 + (4 + JsonIntLen(p.s)) + 1

RECURSIVE SumPreviewDefault(_)
SumPreviewDefault(list) ==
    IF list = <<>> THEN 0 ELSE PreviewLenDefault(Head(list)) + SumPreviewDefault(Tail(list))

RECURSIVE SumPreviewCompact(_)
SumPreviewCompact(list) ==
    IF list = <<>> THEN 0 ELSE PreviewLenCompact(Head(list)) + SumPreviewCompact(Tail(list))

\* entry_size = len(json.dumps(word_map[word]).encode('utf-8'))
EntrySize(list) ==
    2 + SumPreviewDefault(list) + (IF list = <<>> THEN 0 ELSE 2 * (Len(list) - 1))

\* The bytes of a posting list inside a shard file (minimal separators).
ListLenCompact(list) ==
    2 + SumPreviewCompact(list) + (IF list = <<>> THEN 0 ELSE Len(list) - 1)

RECURSIVE SumMembers(_, _)
SumMembers(words, chunk) ==
    IF words = {} THEN 0
    ELSE LET w == CHOOSE x \in words : TRUE
         IN  JsonStrLen(w) + 1 + ListLenCompact(chunk[w]) + SumMembers(words \ {w}, chunk)

\* The bytes _save_chunk writes: json.dump(data, f, separators=(',', ':')).
ChunkFileSize(chunk) ==
    2 + SumMembers(DOMAIN chunk, chunk)
      + (IF DOMAIN chunk = {} THEN 0 ELSE Cardinality(DOMAIN chunk) - 1)

\* ---------------------------------------------------------- index builder
EmptyFn == [x \in {} |-> 0]

\* d[k] = v on a dict
Put(d, k, v) == [x \in DOMAIN d \cup {k} |-> IF x = k THEN v ELSE d[x]]

\* asdict(ISearchRecordPreview(t=record.TITLE, a=record.ARTIST, i=.., s=..))
Preview(record, i, s) == [t |-> record.TITLE, a |-> record.ARTIST, i |-> i, s |-> s]

\* The guard left out: every record is indexed.
IsIdentifiedUnguarded(oi, si, r) == TRUE

\* The guard of build_index's first loop: both identity fields are set.
IsIdentified(oi, si, r) == oi[r] # None /\ si[r] # None

\* The (word, preview) pairs build_index appends, in the order it appends them:
\* records in all_records order, the words of each in _extract_words order.
RECURSIVE WordPostings(_, _, _, _)
WordPostings(records, oi, si, r) ==
    IF r > Len(records) THEN <<>>
    ELSE (IF IsIdentified(oi, si, r)
          THEN LET words == ExtractWords(JoinSpace(records[r].TITLE, records[r].ARTIST))
               IN  [k \in 1..Len(words) |->
                       [word |-> words[k], preview |-> Preview(records[r], oi[r], si[r])]]
          ELSE <<>>)
         \o WordPostings(records, oi, si, r + 1)

\* word_map after the first loop of build_index.
WordMap(records, oi, si) ==
    LET all  == WordPostings(records, oi, si, 1)
        keys == {all[k].word : k \in 1..Len(all)}
    IN  [w \in keys |->
            LET sel == SelectSeq(all, LAMBDA e : e.word = w)
            IN  [k \in 1..Len(sel) |-> sel[k].preview]]

\* The flush test with >= in place of >.
MustFlushAtCeiling(st, entry_size) ==
    st.chunk_size + entry_size >= ShardMaxBytes /\ DOMAIN st.chunk # {}

\* The flush test of build_index's second loop.
MustFlush(st, entry_size) ==
    st.chunk_size + entry_size > ShardMaxBytes /\ DOMAIN st.chunk # {}

\* _save_chunk(chunk_id, chunk)
SaveChunk(st) == [st EXCEPT !.saved = Put(@, st.chunk_id, st.chunk)]

\* _save_chunk(chunk_id, chunk); chunk_id += 1; chunk, chunk_size = {}, 0
FlushChunk(st) ==
    [SaveChunk(st) EXCEPT !.chunk_id = @ + 1, !.chunk = EmptyFn, !.chunk_size = 0]

\* chunk[word] = word_map[word]; word_to_chunk[word] = chunk_id; chunk_size += entry_size
PlaceWord(st, word, list, entry_size) ==
    [st EXCEPT !.chunk = Put(@, word, list),
               !.word_to_chunk = Put(@, word, st.chunk_id),
               !.chunk_size = @ + entry_size]

\* The second loop of build_index over sorted_words.
RECURSIVE AssignChunks(_, _, _)
AssignChunks(sorted_words, word_map, st) ==
    IF sorted_words = <<>> THEN st
    ELSE LET word       == Head(sorted_words)
             entry_size == EntrySize(word_map[word])
             st1        == IF MustFlush(st, entry_size) THEN FlushChunk(st) ELSE st
         IN  AssignChunks(Tail(sorted_words), word_map,
                          PlaceWord(st1, word, word_map[word], entry_size))

\* [x for x in reversed(seq)]
Reverse(seq) == [k \in 1..Len(seq) |-> seq[Len(seq) + 1 - k]]

\* sorted(word_map.keys(), reverse=True)
SortedWordsDescending(word_map) == Reverse(Sorted(DOMAIN word_map))

\* sorted_words = sorted(word_map.keys())
SortedWords(word_map) == Sorted(DOMAIN word_map)

\* The last shard never written.
SaveLastChunkForgotten(st) == st

\* if chunk: self._save_chunk(chunk_id, chunk)
SaveLastChunk(st) == IF DOMAIN st.chunk # {} THEN SaveChunk(st) ELSE st

\* build_index with every write succeeding: the shard files, in the order they
\* are written, and the master index.
BuildIndex(records, oi, si) ==
    LET word_map     == WordMap(records, oi, si)
        sorted_words == SortedWords(word_map)
        st0 == [word_to_chunk |-> EmptyFn, chunk |-> EmptyFn, chunk_size |-> 0,
                chunk_id |-> 0, saved |-> EmptyFn]
        st  == AssignChunks(sorted_words, word_map, st0)
        end == SaveLastChunk(st)
    IN  [chunks |-> end.saved,
         master |-> [totalRecords |-> Len(records), words |-> sorted_words,
                     wordToChunkMap |-> end.word_to_chunk]]

\* ------------------------------------------------------------------ packer
\* get_song_files_raw found nothing (None).
NoFiles == [keys |-> {}, size |-> 0]

\* What get_song_files_raw can return for a track: None, or the bundle of its
\* SUB_TYPE. size is the length of the blob process_song makes of the bundle
\* (the .emk bytes, or the zip of song.mid, song.lyr and song.cur).
FetchResults(track) ==
    {NoFiles} \cup
    (IF track.SUB_TYPE = "EMK"
       THEN {[keys |-> {"emk"}, size |-> n] : n \in {1, MaxBlob}}
     ELSE IF track.SUB_TYPE = "NCN"
       THEN {[keys |-> {"midi", "lyr", "cur"}, size |-> n] : n \in {1, MaxBlob}}
     ELSE {})

\* SongProcessor.__init__
NewProcessor(batch_size, limit_bytes, create_zips) ==
    [batch_size |-> batch_size, limit_bytes |-> limit_bytes, create_zips |-> create_zips,
     current_original_index |-> 0, current_super_index |-> 0,
     current_batch_songs |-> <<>>,
     zip_writer |-> [entries |-> <<>>, closed |-> FALSE],
     current_zip_size |-> 0]

\* SongProcessor._reset_batch
ResetBatch(p) ==
    [p EXCEPT !.current_batch_songs = <<>>,
              !.zip_writer = IF p.create_zips THEN [entries |-> <<>>, closed |-> FALSE] ELSE @,
              !.current_zip_size = IF p.create_zips THEN 0 ELSE @]

\* The tracks of current_batch_songs.
BatchTracks(p) == {p.current_batch_songs[k].track : k \in 1..Len(p.current_batch_songs)}

\* SongProcessor._finalize_batch. w is the processor p, the identity fields oi
\* and si of the tracks, the batch archives on disk, and whether an exception
\* is propagating; write_ok says whether open(zip_filename, 'wb') succeeds.
FinalizeBatch(w, write_ok) ==
    IF w.p.current_batch_songs = <<>> THEN w
    ELSE LET si1 == [r \in DOMAIN w.si |->
                        IF r \in BatchTracks(w.p) THEN w.p.current_super_index ELSE w.si[r]]
             w1  == [w EXCEPT !.si = si1]
             nxt == ResetBatch([w.p EXCEPT !.current_super_index = @ + 1])
         IN  IF ~w.p.create_zips THEN [w1 EXCEPT !.p = nxt]
             ELSE IF write_ok
               THEN [w1 EXCEPT !.batch_files = Put(@, w.p.current_super_index,
                                                   w.p.zip_writer.entries),
                               !.p = nxt]
               ELSE [w1 EXCEPT !.p.zip_writer.closed = TRUE, !.raised = TRUE]

\* The increment indented into the "if self.create_zips" block above it.
NextOriginalIndexInZipBlock(p) ==
    IF p.create_zips THEN p.current_original_index + 1 ELSE p.current_original_index

\* self.current_original_index += 1
NextOriginalIndex(p) == p.current_original_index + 1

\* The test that ends a batch in process_song.
BatchIsFull(p) ==
    \/ Len(p.current_batch_songs) >= p.batch_size
    \/ (p.create_zips /\ p.current_zip_size >= p.limit_bytes)

\* The SUB_TYPE alone decides, the keys of the bundle are not looked at.
IsAcceptableWithoutKeys(track, files) == track.SUB_TYPE \in {"NCN", "EMK"}

\* process_song accepts the bundle: the SUB_TYPE and the keys it needs.
IsAcceptable(track, files) ==
    \/ (track.SUB_TYPE = "NCN" /\ {"midi", "lyr", "cur"} \subseteq files.keys)
    \/ (track.SUB_TYPE = "EMK" /\ "emk" \in files.keys)

\* SongProcessor.process_song(track r, files). ret is the value returned (FALSE
\* also when an exception leaves the call, with raised set).
ProcessSong(w, r, track, files, write_ok) ==
    IF files = NoFiles \/ ~IsAcceptable(track, files)
    THEN [w EXCEPT !.ret = FALSE]
    ELSE LET p   == w.p
             ext == IF track.SUB_TYPE = "NCN" THEN "zip" ELSE "emk"
             w1  == [w EXCEPT !.oi[r] = p.current_original_index,
                              !.p.current_batch_songs =
                                  Append(@, [track |-> r, size |-> files.size])]
         IN  IF p.create_zips /\ p.zip_writer.closed
             THEN \* writestr on a closed ZipFile raises ValueError
                  [w1 EXCEPT !.raised = TRUE, !.ret = FALSE]
             ELSE LET w2 == IF p.create_zips
                            THEN [w1 EXCEPT
                                    !.p.zip_writer.entries =
                                        Append(@, [stem |-> p.current_original_index,
                                                   ext |-> ext, size |-> files.size]),
                                    !.p.current_zip_size = @ + files.size]
                            ELSE w1
                      w3 == [w2 EXCEPT !.p.current_original_index = NextOriginalIndex(w2.p)]
                      w4 == IF BatchIsFull(w3.p) THEN FinalizeBatch(w3, write_ok) ELSE w3
                  IN  [w4 EXCEPT !.ret = ~w4.raised]

\* SongProcessor.finalize_remaining_batch
FinalizeRemainingBatch(w, write_ok) ==
    IF w.p.current_batch_songs # <<>> THEN FinalizeBatch(w, write_ok) ELSE w

\* ---------------------------------------------------------- super-archives
RECURSIVE SumSizes(_)
SumSizes(entries) ==
    IF entries = <<>> THEN 0 ELSE Head(entries).size + SumSizes(Tail(entries))

\* os.path.getsize of a batch archive: the bytes of its entries. The zip
\* headers (about a hundred bytes an entry) vanish at the scale of limit_bytes
\* (megabytes), and DEFLATE leaves compressed blobs about as long as they are.
BatchFileSize(entries) == SumSizes(entries)

\* sorted(..., key=lambda x: int(x.split('.')[0])) on the batch archive names.
RECURSIVE SortedIds(_)
SortedIds(S) ==
    IF S = {} THEN <<>>
    ELSE LET m == CHOOSE x \in S : \A y \in S : x <= y
         IN  <<m>> \o SortedIds(S \ {m})

\* The loop without its size test: every batch archive joins the open group.
GroupArchivesWithoutLimit(zips, files, limit_bytes, archive_files, archive_size) ==
    IF zips = <<>> /\ archive_files = <<>> THEN <<>>
    ELSE <<archive_files \o zips>>

\* The loop of create_karaoke_archives: the groups of batch archives, one per
\* _create_single_archive call, in the order of the calls.
RECURSIVE GroupArchives(_, _, _, _, _)
GroupArchives(zips, files, limit_bytes, archive_files, archive_size) ==
    IF zips = <<>>
    THEN (IF archive_files # <<>> THEN <<archive_files>> ELSE <<>>)
    ELSE LET size == BatchFileSize(files[Head(zips)])
         IN  IF archive_size + size > limit_bytes /\ archive_files # <<>>
             THEN <<archive_files>> \o
                  GroupArchives(Tail(zips), files, limit_bytes, <<Head(zips)>>, size)
             ELSE GroupArchives(Tail(zips), files, limit_bytes,
                                Append(archive_files, Head(zips)), archive_size + size)

\* The archive is written but its files are left in the folder.
CreateSingleArchiveKeepingFiles(d, id, group) ==
    LET members == {group[k] : k \in 1..Len(group)}
    IN  [d EXCEPT !.karaoke_files = Put(@, id, [m \in members |-> d.batch_files[m]])]

\* _create_single_archive(id, files): karaoke_<id>.zip holds the files, which
\* are then removed.
CreateSingleArchive(d, id, group) ==
    LET members == {group[k] : k \in 1..Len(group)}
    IN  [d EXCEPT !.karaoke_files = Put(@, id, [m \in members |-> d.batch_files[m]]),
                  !.batch_files = [m \in DOMAIN d.batch_files \ members |-> d.batch_files[m]]]

RECURSIVE CreateArchives(_, _, _, _)
CreateArchives(d, groups, id, n_ok) ==
    IF groups = <<>> \/ id >= n_ok THEN d
    ELSE CreateArchives(CreateSingleArchive(d, id, Head(groups)), Tail(groups), id + 1, n_ok)

\* The groups create_karaoke_archives makes of the batch archives on disk.
ArchiveGroups(p, batch_files) ==
    IF ~p.create_zips THEN <<>>
    ELSE GroupArchives(SortedIds(DOMAIN batch_files), batch_files, p.limit_bytes, <<>>, 0)

\* create_karaoke_archives on the disk d; the first n_ok archives are written,
\* and the next write, if there is one, fails.
CreateKaraokeArchives(p, d, n_ok) ==
    CreateArchives(d, ArchiveGroups(p, d.batch_files), 0, n_ok)

\* ------------------------------------------------------------ get_song
\* zf.namelist() and zf.read of <original_index>.zip, else <original_index>.emk
FindEntry(entries, original_index, ext) ==
    {k \in 1..Len(entries) : entries[k].stem = original_index /\ entries[k].ext = ext}

\* get_song(superIndex, originalIndex) on the batch archives on disk: the
\* status and the length of the body.
GetSongResponse(batch_files, super_index, original_index) ==
    IF super_index \notin DOMAIN batch_files THEN [status |-> 404, size |-> 0]
    ELSE LET entries == batch_files[super_index]
             zips == FindEntry(entries, original_index, "zip")
             emks == FindEntry(entries, original_index, "emk")
             hit  == IF zips # {} THEN zips ELSE emks
         IN  IF hit # {} /\ entries[CHOOSE k \in hit : TRUE].size > 0
             THEN [status |-> 200, size |-> entries[CHOOSE k \in hit : TRUE].size]
             ELSE [status |-> 404, size |-> 0]

\* ------------------------------------------------------------ query engine
\* str.strip() on the alphabet: the only whitespace is the space.
RECURSIVE LStrip(_)
LStrip(s) == IF s # <<>> /\ Head(s) = " " THEN LStrip(Tail(s)) ELSE s

RECURSIVE RStrip(_)
RStrip(s) == IF s # <<>> /\ s[Len(s)] = " " THEN RStrip(SubSeq(s, 1, Len(s) - 1)) ELSE s

Strip(s) == RStrip(LStrip(s))

\* query.split(' '): the pieces between single spaces, empty ones included.
RECURSIVE Split(_, _)
Split(s, piece) ==
    IF s = <<>> THEN <<piece>>
    ELSE IF Head(s) = " " THEN <<piece>> \o Split(Tail(s), <<>>)
    ELSE Split(Tail(s), Append(piece, Head(s)))

IsNonEmpty(word) == word # <<>>

\* search_terms = [word for word in query.split(' ') if word]
SearchTerms(query) == SelectSeq(Split(query, <<>>), IsNonEmpty)

\* all(term in text for term in search_terms)
AllTermsIn(search_terms, text) ==
    \A k \in 1..Len(search_terms) : IsSubstring(search_terms[k], text)

\* The last row of calculate_score before the fallback.
ScoreFullText(title, artist, search_terms) ==
    IF AllTermsIn(search_terms, JoinSpace(title, artist)) THEN 5 ELSE 99

\* The score table without its second row (title starts with the query).
CalculateScoreWithoutPrefixRow(preview, original_query, search_terms) ==
    LET title  == Lower(preview.t)
        artist == Lower(preview.a)
        query  == Strip(Lower(original_query))
    IN  IF title = query THEN 1
        ELSE IF AllTermsIn(search_terms, title) THEN 3
        ELSE IF AllTermsIn(search_terms, artist) THEN 4
        ELSE ScoreFullText(title, artist, search_terms)

\* calculate_score(preview, original_query, search_terms)
CalculateScore(preview, original_query, search_terms) ==
    LET title  == Lower(preview.t)
        artist == Lower(preview.a)
        query  == Strip(Lower(original_query))
    IN  IF title = query THEN 1
        ELSE IF StartsWith(title, query) THEN 2
        ELSE IF AllTermsIn(search_terms, title) THEN 3
        ELSE IF AllTermsIn(search_terms, artist) THEN 4
        ELSE ScoreFullText(title, artist, search_terms)

\* any(...) in place of all(...): one term is enough.
PassesFilterAnyTerm(preview, search_terms) ==
    \E k \in 1..Len(search_terms) :
        IsSubstring(search_terms[k], Lower(JoinSpace(preview.t, preview.a)))

\* The filter of search: every term is in f"{t} {a}".lower().
PassesFilter(preview, search_terms) ==
    AllTermsIn(search_terms, Lower(JoinSpace(preview.t, preview.a)))

\* get_chunk(chunk_id): the cached shard, else the shard file, else None
\* (the empty dict stands for None: search skips both alike).
GetChunk(cache, files, chunk_id) ==
    IF chunk_id \in DOMAIN cache THEN cache[chunk_id]
    ELSE IF chunk_id \in DOMAIN files THEN files[chunk_id]
    ELSE EmptyFn

\* chunk_cache after get_chunk(chunk_id) for every id of ids.
CacheAfter(cache, files, ids) ==
    [c \in DOMAIN cache \cup (ids \cap DOMAIN files) |->
        IF c \in DOMAIN cache THEN cache[c] ELSE files[c]]

\* The previews the loops of search visit for one shard, in order.
RECURSIVE VisitWords(_, _)
VisitWords(chunk_data, matching_words) ==
    IF matching_words = <<>> THEN <<>>
    ELSE (IF Head(matching_words) \in DOMAIN chunk_data
          THEN chunk_data[Head(matching_words)] ELSE <<>>)
         \o VisitWords(chunk_data, Tail(matching_words))

\* The previews search visits over the required shards (a set of small
\* integers iterates in ascending order), in order.
RECURSIVE VisitChunks(_, _, _, _)
VisitChunks(cache, files, chunk_ids, matching_words) ==
    IF chunk_ids = <<>> THEN <<>>
    ELSE VisitWords(GetChunk(cache, files, Head(chunk_ids)), matching_words)
         \o VisitChunks(cache, files, Tail(chunk_ids), matching_words)

\* The first score seen for an original_index is kept, a lower one is not
\* taken.
ObserveKeepingFirst(unique, preview, query, search_terms) ==
    IF ~PassesFilter(preview, search_terms) THEN unique
    ELSE IF \E k \in 1..Len(unique) : unique[k].preview.i = preview.i THEN unique
    ELSE Append(unique, [preview |-> preview,
                         score |-> CalculateScore(preview, query, search_terms)])

\* unique_scored_results after one more preview: a new original_index is
\* appended, a lower score replaces the entry in place.
Observe(unique, preview, query, search_terms) ==
    IF ~PassesFilter(preview, search_terms) THEN unique
    ELSE LET score == CalculateScore(preview, query, search_terms)
             at    == {k \in 1..Len(unique) : unique[k].preview.i = preview.i}
         IN  IF at = {} THEN Append(unique, [preview |-> preview, score |-> score])
             ELSE LET k == CHOOSE x \in at : TRUE
                  IN  IF score < unique[k].score
                      THEN [unique EXCEPT ![k] = [preview |-> preview, score |-> score]]
                      ELSE unique

RECURSIVE ObserveAll(_, _, _, _)
ObserveAll(unique, previews, query, search_terms) ==
    IF previews = <<>> THEN unique
    ELSE ObserveAll(Observe(unique, Head(previews), query, search_terms),
                    Tail(previews), query, search_terms)

\* A sort that is not stable: each item goes before the items of its score.
RECURSIVE SortByScoreTiesReversed(_)
SortByScoreTiesReversed(items) ==
    IF items = <<>> THEN <<>>
    ELSE LET rest == SortByScoreTiesReversed(SubSeq(items, 1, Len(items) - 1))
             x    == items[Len(items)]
             n    == Cardinality({k \in 1..Len(rest) : rest[k].score < x.score})
         IN  SubSeq(rest, 1, n) \o <<x>> \o SubSeq(rest, n + 1, Len(rest))

\* sorted(values, key=score): stable, by inserting each item after the items
\* that do not score higher.
RECURSIVE SortByScore(_)
SortByScore(items) ==
    IF items = <<>> THEN <<>>
    ELSE LET rest == SortByScore(SubSeq(items, 1, Len(items) - 1))
             x    == items[Len(items)]
             n    == Cardinality({k \in 1..Len(rest) : rest[k].score <= x.score})
         IN  SubSeq(rest, 1, n) \o <<x>> \o SubSeq(rest, n + 1, Len(rest))

\* sorted_results[:max_results]
Limit(items, max_results) ==
    IF max_results >= 0
    THEN SubSeq(items, 1, IF max_results < Len(items) THEN max_results ELSE Len(items))
    ELSE SubSeq(items, 1, IF Len(items) + max_results > 0 THEN Len(items) + max_results ELSE 0)

\* One record of the response of search.
FinalRecord(item) ==
    [TITLE |-> item.preview.t, ARTIST |-> item.preview.a,
     _originalIndex |-> item.preview.i, _superIndex |-> item.preview.s,
     _priority |-> item.score]

\* required_chunks: {wordToChunkMap.get(word) for word in matching_words}
\* without None.
RequiredChunkSet(master, matching_words) ==
    {master.wordToChunkMap[w] :
        w \in {matching_words[k] : k \in 1..Len(matching_words)}
              \cap DOMAIN master.wordToChunkMap}

\* The chunk loop visits the set in ascending order (a set of small integers).
RequiredChunks(master, matching_words) ==
    SortedIds(RequiredChunkSet(master, matching_words))

\* The words equal to the first term, in place of those that start with it.
MatchingWordsExact(master, query) ==
    SelectSeq(master.words, LAMBDA w : w = SearchTerms(query)[1])

\* matching_words = [word for word in master_index['words'] if word.startswith(prefix)]
MatchingWords(master, query) ==
    SelectSeq(master.words, LAMBDA w : StartsWith(w, SearchTerms(query)[1]))

\* search(q, maxResults) with the master index loaded and len(query) >= 2.
SearchRecords(master, cache, files, query, max_results) ==
    LET search_terms   == SearchTerms(query)
        matching_words == MatchingWords(master, query)
        previews == VisitChunks(cache, files, RequiredChunks(master, matching_words),
                                matching_words)
        unique   == ObserveAll(<<>>, previews, query, search_terms)
        limited  == Limit(SortByScore(unique), max_results)
    IN  [k \in 1..Len(limited) |-> FinalRecord(limited[k])]

\* ------------------------------------------------------------------ inputs
\* The records a catalog can hold: TITLE, ARTIST and SUB_TYPE.
Catalog ==
    << [TITLE |-> <<"a","b","b","a"," ","b","a","a","b">>, ARTIST |-> <<>>,
        SUB_TYPE |-> "EMK"],
       [TITLE |-> <<"A","b">>, ARTIST |-> <<"b","a">>, SUB_TYPE |-> "NCN"],
       [TITLE |-> <<"a","b","-","b","a"," ","1">>, ARTIST |-> <<"A","B">>,
        SUB_TYPE |-> "EMK"],
       [TITLE |-> <<"B","1">>, ARTIST |-> <<"b">>, SUB_TYPE |-> "MID"] >>

CatalogSet == {Catalog[k] : k \in 1..Len(Catalog)}

Tracks == 1..NumTracks

\* The configuration ProcessingThread is started with.
Configs ==
    [batch_size : {MaxBatchSize - 1, MaxBatchSize},
     limit_bytes : {MaxLimit - 1, MaxLimit},
     create_zips : BOOLEAN]

\* master_index = None, and no master_index_v6.json on disk.
NoMaster == [totalRecords |-> None, words |-> <<>>, wordToChunkMap |-> EmptyFn]

\* Nothing was answered yet.
NoResponse == [status |-> 0]

\* No search was requested yet.
NoRequest == [q |-> <<>>, max_results |-> 0]

\* The request handler threads of the server.
Handlers == 1..NumHandlers

\* A handler that is not in get_chunk.
NoCall == [pc |-> "idle", chunk_id |-> None, chunk_data |-> EmptyFn]

\* ---------------------------------------------------------------- DBF file
\* A DBF file that holds the given rows and nothing else: no header bytes,
\* records of one byte (the deletion flag, not set).
DbfOf(rows) ==
    [file_buffer |-> [k \in 1..Len(rows) |-> " "],
     header |-> [record_count |-> Len(rows), header_length |-> 0, record_length |-> 1],
     rows |-> rows]

\* The loop of parse_records from record i on, break where the loop continues:
\* a deleted record ends the iteration.
RECURSIVE ParseFromStoppingAtDeleted(_, _)
ParseFromStoppingAtDeleted(d, i) ==
    LET record_offset == d.header.header_length + i * d.header.record_length
    IN  IF i >= d.header.record_count THEN <<>>
        ELSE IF record_offset + d.header.record_length > Len(d.file_buffer) THEN <<>>
        ELSE IF d.file_buffer[record_offset + 1] = "*" THEN <<>>
        ELSE <<d.rows[i + 1]>> \o ParseFromStoppingAtDeleted(d, i + 1)

\* The loop of parse_records from record i on: the ITrackData of the records
\* it appends. file_buffer[record_offset] is the byte at position
\* record_offset + 1 of the sequence; "*" is 0x2A.
RECURSIVE ParseFrom(_, _)
ParseFrom(d, i) ==
    LET record_offset == d.header.header_length + i * d.header.record_length
    IN  IF i >= d.header.record_count THEN <<>>
        ELSE IF record_offset + d.header.record_length > Len(d.file_buffer) THEN <<>>
        ELSE IF d.file_buffer[record_offset + 1] = "*" THEN ParseFrom(d, i + 1)
        ELSE <<d.rows[i + 1]>> \o ParseFrom(d, i + 1)

\* parse_records ending at the first deleted record.
ParseRecordsStoppingAtDeleted(d) ==
    IF d.header.record_length = 0 THEN <<>> ELSE ParseFromStoppingAtDeleted(d, 0)

\* DBFParser.parse_records(file_buffer, header)
ParseRecords(d) == IF d.header.record_length = 0 THEN <<>> ELSE ParseFrom(d, 0)

\* ------------------------------------------------------------------- state
VARIABLES
    config,           \* ProcessingThread.config
    dbf,              \* the DBF file: file_buffer, its header, its rows
    all_records,      \* the tracks parse_records returns
    originalIndex,    \* track._originalIndex, per track
    superIndex,       \* track._superIndex, per track
    pc,               \* where ProcessingThread.run is
    should_stop,      \* ProcessingThread.should_stop
    finished,         \* the success flags of the finished signals emitted
    handed,           \* the tracks handed to process_song, in order
    resolved,         \* the tracks handed over whose fetch returned a bundle
    processed_count,  \* processed_count of run
    processor,        \* the SongProcessor
    batch_files,      \* <super_index>.zip in the output folder
    karaoke_files,    \* karaoke_<k>.zip in the output folder
    chunk_files,      \* Data/preview_chunk_v6/<id>.json
    master_file,      \* Data/master_index_v6.json
    index_zip,        \* index.zip exists
    batch_write_failed, \* history: how many tracks had been handed over when
                        \* a batch archive write first failed, else None
    master_index,     \* api_search.master_index
    chunk_cache,      \* api_search.chunk_cache
    response,         \* the last response of the API
    request,          \* the q and maxResults of the last search request
    get_chunk_calls   \* the get_chunk call of each request handler thread

buildVars ==
    <<config, dbf, all_records, resolved, originalIndex, superIndex, pc, should_stop, finished,
      handed,
      processed_count, processor, batch_write_failed>>
diskVars == <<batch_files, karaoke_files, chunk_files, master_file, index_zip>>
serveVars == <<master_index, chunk_cache, response, request, get_chunk_calls>>
vars == <<buildVars, diskVars, serveVars>>

\* The state run starts in, for the given records and configuration.
StartOfRun(records, cfg) ==
    /\ config = cfg
    /\ dbf = DbfOf(records)
    /\ all_records = records
    /\ originalIndex = [r \in 1..Len(records) |-> None]
    /\ superIndex = [r \in 1..Len(records) |-> None]
    /\ pc = "read"
    /\ should_stop = FALSE
    /\ finished = <<>>
    /\ handed = <<>>
    /\ resolved = {}
    /\ processed_count = 0
    /\ processor = NewProcessor(cfg.batch_size, cfg.limit_bytes, cfg.create_zips)
    /\ batch_files = EmptyFn
    /\ karaoke_files = EmptyFn
    /\ chunk_files = EmptyFn
    /\ master_file = NoMaster
    /\ index_zip = FALSE
    /\ batch_write_failed = None
    /\ master_index = NoMaster
    /\ chunk_cache = EmptyFn
    /\ response = NoResponse
    /\ request = NoRequest
    /\ get_chunk_calls = [h \in Handlers |-> NoCall]

\* The catalog from its k-th record on, NumTracks records long.
CatalogFrom(k) == [r \in Tracks |-> Catalog[((k + r - 2) % Len(Catalog)) + 1]]

\* One catalog of NumTracks records, every configuration.
Init == \E cfg \in Configs : StartOfRun(CatalogFrom(1), cfg)

\* Every catalog, one configuration that writes archives.
InitIndex ==
    \E k \in 1..Len(Catalog) :
        StartOfRun(CatalogFrom(k),
                   [batch_size |-> MaxBatchSize, limit_bytes |-> MaxLimit,
                    create_zips |-> TRUE])

\* ------------------------------------------------------ ProcessingThread.run
\* self.finished.emit(success, ...) and the return that follows it.
EmitFinished(success) ==
    /\ finished' = Append(finished, success)
    /\ pc' = "done"

\* ProcessingThread.stop, called by the GUI while the thread runs.
Stop ==
    /\ pc # "done"
    /\ ~should_stop
    /\ should_stop' = TRUE
    /\ UNCHANGED <<config, dbf, all_records, resolved, originalIndex, superIndex, pc, finished, handed,
                   processed_count, processor, batch_write_failed, diskVars, serveVars>>

\* 1. DBF Read: the file is missing or unreadable, or read.
ReadDBF ==
    /\ pc = "read"
    /\ \E dbf_ok \in BOOLEAN :
          IF ~dbf_ok THEN EmitFinished(FALSE)
          ELSE IF should_stop THEN pc' = "done" /\ UNCHANGED finished
          ELSE pc' = "parse" /\ UNCHANGED finished
    /\ UNCHANGED <<config, dbf, all_records, resolved, originalIndex, superIndex, should_stop, handed,
                   processed_count, processor, batch_write_failed, diskVars, serveVars>>

\* 2. DBF Parse, then the SongProcessor is made and the fetches are submitted.
ParseDBF ==
    /\ pc = "parse"
    /\ \E parse_ok \in BOOLEAN :
          IF ~parse_ok THEN EmitFinished(FALSE)
          ELSE IF should_stop THEN pc' = "done" /\ UNCHANGED finished
          ELSE pc' = "songs" /\ UNCHANGED finished
    /\ UNCHANGED <<config, dbf, all_records, resolved, originalIndex, superIndex, should_stop, handed,
                   processed_count, processor, batch_write_failed, diskVars, serveVars>>

\* all_records = parser.parse_records(file_buffer, header, ...) and the
\* stop check that follows it.
ParseRecordsCall ==
    /\ pc = "parse"
    /\ all_records' = ParseRecords(dbf)
    /\ originalIndex' = [r \in 1..Len(ParseRecords(dbf)) |-> None]
    /\ superIndex' = [r \in 1..Len(ParseRecords(dbf)) |-> None]
    /\ pc' = IF should_stop THEN "done" ELSE "songs"
    /\ UNCHANGED <<config, dbf, resolved, should_stop, finished, handed,
                   processed_count, processor, batch_write_failed, diskVars, serveVars>>

\* The packer's view of the state, and the state after a packer call.
World ==
    [p |-> processor, oi |-> originalIndex, si |-> superIndex,
     batch_files |-> batch_files, raised |-> FALSE, ret |-> FALSE]

SetWorld(w) ==
    /\ processor' = w.p
    /\ originalIndex' = w.oi
    /\ superIndex' = w.si
    /\ batch_files' = w.batch_files

\* 3. One turn of the as_completed loop: the fetch of track r completes with
\* files and the loop hands it to process_song; an exception is logged and
\* the loop goes on.
Consume(r) ==
    /\ pc = "songs"
    /\ ~should_stop
    /\ \A k \in 1..Len(handed) : handed[k] # r
    /\ \E files \in FetchResults(all_records[r]), write_ok \in BOOLEAN :
          LET w == ProcessSong(World, r, all_records[r], files, write_ok)
              write_failure == w.raised /\ ~processor.zip_writer.closed
          IN  /\ SetWorld(w)
              /\ processed_count' = IF w.ret THEN processed_count + 1 ELSE processed_count
              /\ batch_write_failed' =
                    IF write_failure /\ batch_write_failed = None
                    THEN Len(handed) + 1 ELSE batch_write_failed
              /\ resolved' = IF files # NoFiles THEN resolved \cup {r} ELSE resolved
    /\ handed' = Append(handed, r)
    /\ UNCHANGED <<config, dbf, all_records, pc, should_stop, finished, karaoke_files,
                   chunk_files, master_file, index_zip, serveVars>>

\* The loop ends: every future was consumed, or the stop flag is seen (break).
\* Leaving the with block waits for the fetches still running.
ExitLoop ==
    /\ pc = "songs"
    /\ \/ Len(handed) = Len(all_records)
       \/ should_stop
    /\ pc' = "joined"
    /\ UNCHANGED <<config, dbf, all_records, resolved, originalIndex, superIndex, should_stop, finished,
                   handed, processed_count, processor, batch_write_failed, diskVars,
                   serveVars>>

\* run without the stop check after the loop: the open batch is finalized.
AfterLoopWithoutStopCheck ==
    /\ pc = "joined"
    /\ \E write_ok \in BOOLEAN :
          LET w == FinalizeRemainingBatch(World, write_ok)
          IN  /\ SetWorld(w)
              /\ IF w.raised
                 THEN /\ EmitFinished(FALSE)
                      /\ batch_write_failed' =
                            IF batch_write_failed = None
                            THEN Len(handed) ELSE batch_write_failed
                 ELSE /\ pc' = "archive"
                      /\ UNCHANGED <<finished, batch_write_failed>>
    /\ UNCHANGED <<config, dbf, all_records, resolved, should_stop, handed, processed_count,
                   karaoke_files, chunk_files, master_file, index_zip, serveVars>>

\* After the loop: stopped by the user, or finalize_remaining_batch.
AfterLoop ==
    /\ pc = "joined"
    /\ IF should_stop
       THEN /\ EmitFinished(FALSE)
            /\ UNCHANGED <<originalIndex, superIndex, processor, batch_files,
                           batch_write_failed>>
       ELSE \E write_ok \in BOOLEAN :
               LET w == FinalizeRemainingBatch(World, write_ok)
               IN  /\ SetWorld(w)
                   /\ IF w.raised
                      THEN /\ EmitFinished(FALSE)
                           /\ batch_write_failed' =
                                 IF batch_write_failed = None
                                 THEN Len(handed) ELSE batch_write_failed
                      ELSE /\ pc' = "archive"
                           /\ UNCHANGED <<finished, batch_write_failed>>
    /\ UNCHANGED <<config, dbf, all_records, resolved, should_stop, handed, processed_count,
                   karaoke_files, chunk_files, master_file, index_zip, serveVars>>

\* 4. Archiving: create_karaoke_archives when create_zips is set.
Archive ==
    /\ pc = "archive"
    /\ LET groups == ArchiveGroups(processor, batch_files)
           d == [batch_files |-> batch_files, karaoke_files |-> karaoke_files]
       IN  \E n_ok \in 0..Len(groups) :
              LET d1 == CreateKaraokeArchives(processor, d, n_ok)
              IN  /\ batch_files' = d1.batch_files
                  /\ karaoke_files' = d1.karaoke_files
                  /\ IF n_ok < Len(groups) THEN EmitFinished(FALSE)
                     ELSE pc' = "index" /\ UNCHANGED finished
    /\ UNCHANGED <<config, dbf, all_records, resolved, originalIndex, superIndex, should_stop, handed,
                   processed_count, processor, batch_write_failed, chunk_files,
                   master_file, index_zip, serveVars>>

\* 5. Indexing: build_index writes the shard files in order and then the
\* master index; the first n_ok writes succeed.
Index ==
    /\ pc = "index"
    /\ LET built == BuildIndex(all_records, originalIndex, superIndex)
           n == Cardinality(DOMAIN built.chunks)
       IN  \E n_ok \in 0..(n + 1) :
              /\ chunk_files' = [c \in {x \in DOMAIN built.chunks : x < n_ok} |->
                                    built.chunks[c]]
              /\ IF n_ok <= n
                 THEN EmitFinished(FALSE) /\ UNCHANGED master_file
                 ELSE /\ master_file' = built.master
                      /\ pc' = "indexzip"
                      /\ UNCHANGED finished
    /\ UNCHANGED <<config, dbf, all_records, resolved, originalIndex, superIndex, should_stop, handed,
                   processed_count, processor, batch_write_failed, batch_files,
                   karaoke_files, index_zip, serveVars>>

\* 6. Final index zipping when config['create_index_zip'] is set (read here
\* for the first time, so drawn here), then finished(True).
IndexZip ==
    /\ pc = "indexzip"
    /\ \E create_index_zip \in BOOLEAN, zip_ok \in BOOLEAN :
          IF create_index_zip
          THEN /\ index_zip' = zip_ok
               /\ EmitFinished(zip_ok)
          ELSE /\ EmitFinished(TRUE)
               /\ UNCHANGED index_zip
    /\ UNCHANGED <<config, dbf, all_records, resolved, originalIndex, superIndex, should_stop, handed,
                   processed_count, processor, batch_write_failed, batch_files,
                   karaoke_files, chunk_files, master_file, serveVars>>

\* GET /get_song?superIndex=s&originalIndex=i on the output folder of a run
\* that reported success.
GetSong(s, i) ==
    /\ pc = "done"
    /\ finished = <<TRUE>>
    /\ response' = GetSongResponse(batch_files, s, i)
    /\ UNCHANGED <<buildVars, diskVars, master_index, chunk_cache, request,
                   get_chunk_calls>>

Next ==
    \/ Stop
    \/ ReadDBF
    \/ ParseDBF
    \/ \E r \in Tracks : Consume(r)
    \/ ExitLoop
    \/ AfterLoop
    \/ Archive
    \/ Index
    \/ IndexZip
    \/ \E s \in 0..(NumTracks - 1), i \in 0..(NumTracks - 1) : GetSong(s, i)

Spec == Init /\ [][Next]_vars

\* The same run over every catalog.
IndexSpec == InitIndex /\ [][Next]_vars

\* -------------------------------------------------------------- api_search
\* The query strings requests carry.
Queries ==
    { <<"a","b">>, <<"A","b"," ","b","a">>, <<" ","a","b"," ">>, <<"a">>,
      <<"b","a"," "," ","a","b">>, <<"a","b","b","a">>, <<"b","1"," ","b">>,
      <<"b","a","-">>, <<" "," ">>, <<"a","b"," ","1">>, <<"b","a">> }

\* The queries that are also sent with a maxResults other than the default.
CappedQueries == { <<"a","b">>, <<"A","b"," ","b","a">> }

\* The maxResults values requests carry (50 is the default).
MaxResultsValues == {-1, 0, 1, 50}

\* load_master_index at startup.
LoadMasterIndex ==
    /\ master_index = NoMaster
    /\ master_file # NoMaster
    /\ master_index' = master_file
    /\ UNCHANGED <<buildVars, diskVars, chunk_cache, response, request,
                   get_chunk_calls>>

\* Only the empty query is turned away.
QueryTooShortOnlyEmpty(query) == Len(query) < 1

\* if len(query) < 2
QueryTooShort(query) == Len(query) < 2

\* GET /search?q=q&maxResults=max_results
Search(q, max_results) ==
    /\ LET query == Strip(Lower(q))
       IN  IF master_index = NoMaster
           THEN response' = [status |-> 503] /\ UNCHANGED chunk_cache
           ELSE IF QueryTooShort(query)
           THEN response' = [status |-> 400] /\ UNCHANGED chunk_cache
           ELSE /\ response' =
                      [status |-> 200,
                       records |-> SearchRecords(master_index, chunk_cache, chunk_files,
                                                 query, max_results)]
                /\ chunk_cache' =
                      CacheAfter(chunk_cache, chunk_files,
                                 RequiredChunkSet(master_index,
                                                  MatchingWords(master_index, query)))
    /\ request' = [q |-> q, max_results |-> max_results]
    /\ UNCHANGED <<buildVars, diskVars, master_index, get_chunk_calls>>

\* process_song on every record in turn, each with the smallest bundle its
\* SUB_TYPE can have, then finalize_remaining_batch.
RECURSIVE PackAll(_, _, _)
PackAll(w, records, r) ==
    IF r > Len(records) THEN FinalizeRemainingBatch(w, TRUE)
    ELSE LET files == IF records[r].SUB_TYPE = "EMK" THEN [keys |-> {"emk"}, size |-> 1]
                      ELSE IF records[r].SUB_TYPE = "NCN"
                      THEN [keys |-> {"midi", "lyr", "cur"}, size |-> 1]
                      ELSE NoFiles
         IN  PackAll(ProcessSong(w, r, records[r], files, TRUE), records, r + 1)

\* The API starts on the output of a run that reported success: no archives
\* (create_zips off), every fetch completed in record order, no index.zip.
InitSearch ==
    \E records \in [Tracks -> CatalogSet] :
        LET cfg == [batch_size |-> MaxBatchSize, limit_bytes |-> MaxLimit,
                    create_zips |-> FALSE]
            w0 == [p |-> NewProcessor(cfg.batch_size, cfg.limit_bytes, cfg.create_zips),
                   oi |-> [r \in Tracks |-> None], si |-> [r \in Tracks |-> None],
                   batch_files |-> EmptyFn, raised |-> FALSE, ret |-> FALSE]
            w == PackAll(w0, records, 1)
            built == BuildIndex(records, w.oi, w.si)
        IN  /\ config = cfg
            /\ dbf = DbfOf(records)
            /\ all_records = records
            /\ originalIndex = w.oi
            /\ superIndex = w.si
            /\ pc = "done"
            /\ should_stop = FALSE
            /\ finished = <<TRUE>>
            /\ handed = [r \in Tracks |-> r]
            /\ resolved = {r \in Tracks : records[r].SUB_TYPE \in {"EMK", "NCN"}}
            /\ processed_count = Cardinality({r \in Tracks : w.oi[r] # None})
            /\ processor = w.p
            /\ batch_files = EmptyFn
            /\ karaoke_files = EmptyFn
            /\ chunk_files = built.chunks
            /\ master_file = built.master
            /\ index_zip = FALSE
            /\ batch_write_failed = None
            /\ master_index = NoMaster
            /\ chunk_cache = EmptyFn
            /\ response = NoResponse
            /\ request = NoRequest
            /\ get_chunk_calls = [h \in Handlers |-> NoCall]

SearchNext ==
    \/ LoadMasterIndex
    \/ \E q \in Queries, max_results \in MaxResultsValues :
          /\ (max_results = 50 \/ q \in CappedQueries)
          /\ Search(q, max_results)

\* The query engine on the index of every catalog.
SearchSpec == InitSearch /\ [][SearchNext]_vars

\* ---------------------------------------------------------------- get_chunk
\* The shard ids handlers ask for: those of the shards and one that has no
\* file.
RequestedChunkIds == 0..Cardinality(DOMAIN chunk_files)

\* The cache holds this one shard only.
StoreChunkAlone(cache, chunk_id, chunk_data) == Put(EmptyFn, chunk_id, chunk_data)

\* chunk_cache[chunk_id] = chunk_data
StoreChunk(cache, chunk_id, chunk_data) == Put(cache, chunk_id, chunk_data)

\* A handler enters get_chunk(chunk_id): a cached shard is returned, else the
\* handler goes on to the file.
CallGetChunk(h, chunk_id) ==
    /\ get_chunk_calls[h].pc = "idle"
    /\ get_chunk_calls' =
          [get_chunk_calls EXCEPT ![h] =
              IF chunk_id \in DOMAIN chunk_cache
              THEN [pc |-> "returned", chunk_id |-> chunk_id,
                    chunk_data |-> chunk_cache[chunk_id]]
              ELSE [pc |-> "load", chunk_id |-> chunk_id, chunk_data |-> EmptyFn]]
    /\ UNCHANGED <<buildVars, diskVars, master_index, chunk_cache, response, request>>

\* open and json.load: the shard is read, or an exception (no such file, a
\* read error) makes get_chunk return None.
ReadChunkFile(h) ==
    /\ get_chunk_calls[h].pc = "load"
    /\ \E read_ok \in BOOLEAN :
          LET chunk_id == get_chunk_calls[h].chunk_id
          IN  get_chunk_calls' =
                  [get_chunk_calls EXCEPT ![h] =
                      IF read_ok /\ chunk_id \in DOMAIN chunk_files
                      THEN [pc |-> "store", chunk_id |-> chunk_id,
                            chunk_data |-> chunk_files[chunk_id]]
                      ELSE [pc |-> "returned", chunk_id |-> chunk_id,
                            chunk_data |-> EmptyFn]]
    /\ UNCHANGED <<buildVars, diskVars, master_index, chunk_cache, response, request>>

\* chunk_cache[chunk_id] = chunk_data; return chunk_data
CacheChunk(h) ==
    /\ get_chunk_calls[h].pc = "store"
    /\ chunk_cache' = StoreChunk(chunk_cache, get_chunk_calls[h].chunk_id,
                                 get_chunk_calls[h].chunk_data)
    /\ get_chunk_calls' = [get_chunk_calls EXCEPT ![h].pc = "returned"]
    /\ UNCHANGED <<buildVars, diskVars, master_index, response, request>>

\* The caller has the value; the handler is free for its next call.
LeaveGetChunk(h) ==
    /\ get_chunk_calls[h].pc = "returned"
    /\ get_chunk_calls' = [get_chunk_calls EXCEPT ![h] = NoCall]
    /\ UNCHANGED <<buildVars, diskVars, master_index, chunk_cache, response, request>>

\* The API on the index of one catalog, its handlers idle.
InitChunks == InitSearch /\ \E k \in 1..Len(Catalog) : all_records = CatalogFrom(k)

ChunkNext ==
    \/ \E h \in Handlers, chunk_id \in RequestedChunkIds : CallGetChunk(h, chunk_id)
    \/ \E h \in Handlers : ReadChunkFile(h)
    \/ \E h \in Handlers : CacheChunk(h)
    \/ \E h \in Handlers : LeaveGetChunk(h)

\* Handlers calling get_chunk at the same time, in every interleaving.
ChunkSpec == InitChunks /\ [][ChunkNext]_vars

\* process_song on the records in the given order, each with the smallest
\* bundle its SUB_TYPE can have and every batch write in the loop failing,
\* then finalize_remaining_batch, whose write succeeds.
RECURSIVE PackAllFailing(_, _, _)
PackAllFailing(w, records, order) ==
    IF order = <<>> THEN FinalizeRemainingBatch([w EXCEPT !.raised = FALSE], TRUE)
    ELSE LET r == Head(order)
             files == IF records[r].SUB_TYPE = "EMK" THEN [keys |-> {"emk"}, size |-> 1]
                      ELSE IF records[r].SUB_TYPE = "NCN"
                      THEN [keys |-> {"midi", "lyr", "cur"}, size |-> 1]
                      ELSE NoFiles
         IN  PackAllFailing(ProcessSong([w EXCEPT !.raised = FALSE], r, records[r],
                                        files, FALSE),
                            records, Tail(order))

\* The orders in which the fetches complete: record order and its reverse.
CompletionOrders == {[r \in Tracks |-> r], [r \in Tracks |-> NumTracks + 1 - r]}

\* The API starts on the output of a run that reported success although the
\* write of the first batch archive failed in the loop (batches of one song):
\* the tracks accepted after the failure share an original_index, so the
\* postings of one original_index differ in title and artist, and in score.
InitSharedIndex ==
    \E k \in 1..Len(Catalog), order \in CompletionOrders :
        LET records == CatalogFrom(k)
            cfg == [batch_size |-> 1, limit_bytes |-> MaxLimit, create_zips |-> TRUE]
            w0 == [p |-> NewProcessor(cfg.batch_size, cfg.limit_bytes, cfg.create_zips),
                   oi |-> [r \in Tracks |-> None], si |-> [r \in Tracks |-> None],
                   batch_files |-> EmptyFn, raised |-> FALSE, ret |-> FALSE]
            w == PackAllFailing(w0, records, order)
            d == CreateKaraokeArchives(w.p, [batch_files |-> w.batch_files,
                                             karaoke_files |-> EmptyFn], NumTracks)
            built == BuildIndex(records, w.oi, w.si)
            accepted == {r \in Tracks : records[r].SUB_TYPE \in {"EMK", "NCN"}}
        IN  /\ config = cfg
            /\ dbf = DbfOf(records)
            /\ all_records = records
            /\ originalIndex = w.oi
            /\ superIndex = w.si
            /\ pc = "done"
            /\ should_stop = FALSE
            /\ finished = <<TRUE>>
            /\ handed = order
            /\ resolved = accepted
            /\ processed_count = 0
            /\ processor = w.p
            /\ batch_files = d.batch_files
            /\ karaoke_files = d.karaoke_files
            /\ chunk_files = built.chunks
            /\ master_file = built.master
            /\ index_zip = FALSE
            /\ batch_write_failed =
                  (CHOOSE n \in 1..NumTracks :
                      /\ order[n] \in accepted
                      /\ \A j \in 1..(n - 1) : order[j] \notin accepted)
            /\ master_index = NoMaster
            /\ chunk_cache = EmptyFn
            /\ response = NoResponse
            /\ request = NoRequest
            /\ get_chunk_calls = [h \in Handlers |-> NoCall]

\* The query engine on indexes with shared original indices.
SharedIndexSpec == InitSharedIndex /\ [][SearchNext]_vars

\* ------------------------------------------------------------------ claims
\* The tracks process_song gave an _originalIndex.
Accepted == {r \in DOMAIN originalIndex : originalIndex[r] # None}

\* The tracks handed to process_song so far.
Handed == {handed[k] : k \in 1..Len(handed)}

\* The tracks whose _superIndex is s.
TracksOfBatch(s) == {r \in DOMAIN superIndex : superIndex[r] = s}

\* The entry stems of the batch archive <s>.zip.
Stems(s) == {batch_files[s][k].stem : k \in 1..Len(batch_files[s])}

\* The (s, i) pairs of the preview records in the shard files.
IndexedPairs ==
    UNION {UNION {{<<chunk_files[c][w][k].s, chunk_files[c][w][k].i>> :
                      k \in 1..Len(chunk_files[c][w])} :
                  w \in DOMAIN chunk_files[c]} :
           c \in DOMAIN chunk_files}

\* C1: as long as no batch archive write has failed, no two accepted tracks
\* have the same _originalIndex and the values assigned are exactly 0..n-1 for
\* the n accepted tracks, at every point of the run and so after
\* finalize_remaining_batch.
C1_OriginalIndexUniqueContiguous ==
    batch_write_failed = None =>
        /\ \A r1, r2 \in Accepted : originalIndex[r1] = originalIndex[r2] => r1 = r2
        /\ {originalIndex[r] : r \in Accepted} = 0..(Cardinality(Accepted) - 1)

\* C1 witness: finalize_remaining_batch has returned after accepted and
\* rejected calls mixed, with at least two tracks accepted and no write failure.
C1_Witness ==
    /\ pc = "archive"
    /\ batch_write_failed = None
    /\ Cardinality(Accepted) >= 2
    /\ Handed \ Accepted # {}

\* C2 as claimed: the entry stems of every batch archive on disk are exactly
\* the _originalIndex values of the tracks whose _superIndex names it, no stem
\* is in an archive twice and none is in two archives.
C2_ArchiveStemsAreItsTracks ==
    /\ \A s \in DOMAIN batch_files :
          /\ Stems(s) = {originalIndex[r] : r \in TracksOfBatch(s)}
          /\ Cardinality(Stems(s)) = Len(batch_files[s])
    /\ \A s1, s2 \in DOMAIN batch_files : s1 # s2 => Stems(s1) \cap Stems(s2) = {}

\* C3 as claimed: after a run with archives that reported success (batching,
\* finalize_remaining_batch, super-archive pass, index build), get_song answers every
\* (super_index, original_index) pair of the index with a non-empty blob.
C3_IndexedBlobIsServed ==
    (pc = "done" /\ finished = <<TRUE>> /\ config.create_zips) =>
        \A pair \in IndexedPairs :
            LET answer == GetSongResponse(batch_files, pair[1], pair[2])
            IN  answer.status = 200 /\ answer.size > 0

\* C4 as claimed: the blobs of every batch archive total at most limit_bytes,
\* unless the archive holds a single blob.
C4_BatchWithinByteLimit ==
    \A s \in DOMAIN batch_files :
        \/ SumSizes(batch_files[s]) <= processor.limit_bytes
        \/ Len(batch_files[s]) = 1

\* C5 as claimed: once a batch archive write has failed, no further track is
\* handed to the packer, no index is built, and the run ends reporting failure.
C5_WriteFailureAbortsBuild ==
    batch_write_failed # None =>
        /\ Len(handed) = batch_write_failed
        /\ master_file = NoMaster
        /\ (pc = "done" => finished = <<FALSE>>)

\* The records of the last search response (none when it was not a search
\* that succeeded).
ResponseRecords == IF "records" \in DOMAIN response THEN response.records ELSE <<>>

\* C6: every record returned by search has _priority in {1,2,3,4,5}; the
\* fallback 99 of calculate_score never reaches a response.
C6_PriorityNeverFallback ==
    \A k \in 1..Len(ResponseRecords) : ResponseRecords[k]._priority \in 1..5

\* C6 witness: a search returned a record that only the last row of the score
\* table accepts (priority 5), the row next to the fallback.
C6_Witness ==
    \E k \in 1..Len(ResponseRecords) : ResponseRecords[k]._priority = 5

\* C7 as claimed: every shard file is at most ShardMaxBytes long, unless it
\* holds one word whose posting list alone (taken at its longest, as
\* entry_size measures it) exceeds the ceiling.
C7_ShardWithinCeiling ==
    \A c \in DOMAIN chunk_files :
        \/ ChunkFileSize(chunk_files[c]) <= ShardMaxBytes
        \/ /\ Cardinality(DOMAIN chunk_files[c]) = 1
           /\ \A w \in DOMAIN chunk_files[c] : EntrySize(chunk_files[c][w]) > ShardMaxBytes

\* C8: in the master index written by build_index, words is strictly
\* ascending and its elements are exactly the keys of wordToChunkMap.
C8_MasterWordsSortedAndMapped ==
    master_file # NoMaster =>
        /\ \A k \in 1..(Len(master_file.words) - 1) :
              StrLess(master_file.words[k], master_file.words[k + 1])
        /\ {master_file.words[k] : k \in 1..Len(master_file.words)}
              = DOMAIN master_file.wordToChunkMap

\* C8 witness: a master index of at least three words spread over more than
\* one shard.
C8_Witness ==
    /\ master_file # NoMaster
    /\ Len(master_file.words) >= 3
    /\ Cardinality({master_file.wordToChunkMap[w] : w \in DOMAIN master_file.wordToChunkMap}) >= 2

C10_PostingsNameFinalizedTracks ==
    \A c \in DOMAIN chunk_files :
        \A w \in DOMAIN chunk_files[c] :
            \A k \in 1..Len(chunk_files[c][w]) :
                \E r \in DOMAIN originalIndex :
                    /\ originalIndex[r] # None
                    /\ superIndex[r] # None
                    /\ chunk_files[c][w][k] =
                          Preview(all_records[r], originalIndex[r], superIndex[r])

\* C10 witness: shard files were written while a track handed to the packer
\* had been rejected.
C10_Witness ==
    /\ IndexedPairs # {}
    /\ \E r \in Handed \ Accepted :
          ExtractWords(JoinSpace(all_records[r].TITLE, all_records[r].ARTIST)) # <<>>


\* The file sizes of the batch archives packed into karaoke_<k>.zip, added up.
RECURSIVE MemberSizes(_, _)
MemberSizes(k, members) ==
    IF members = {} THEN 0
    ELSE LET m == CHOOSE x \in members : TRUE
         IN  BatchFileSize(karaoke_files[k][m]) + MemberSizes(k, members \ {m})

\* C11: the batch archives of every karaoke_<k>.zip total at most limit_bytes
\* in file size, unless the super-archive holds a single batch archive that
\* alone exceeds the limit.
C11_SuperArchiveWithinLimit ==
    \A k \in DOMAIN karaoke_files :
        \/ MemberSizes(k, DOMAIN karaoke_files[k]) <= processor.limit_bytes
        \/ /\ Cardinality(DOMAIN karaoke_files[k]) = 1
           /\ MemberSizes(k, DOMAIN karaoke_files[k]) > processor.limit_bytes

\* C11 witness: create_karaoke_archives closed a super-archive of two batch
\* archives that fill the limit exactly, and opened the next one for a batch
\* archive that no longer fitted.
C11_Witness ==
    /\ Cardinality(DOMAIN karaoke_files) >= 2
    /\ \E k \in DOMAIN karaoke_files :
          /\ Cardinality(DOMAIN karaoke_files[k]) >= 2
          /\ MemberSizes(k, DOMAIN karaoke_files[k]) = processor.limit_bytes

\* The preview records posted in the shard files under the words of W.
PostedUnder(W) ==
    UNION {UNION {{chunk_files[c][w][k] : k \in 1..Len(chunk_files[c][w])} :
                  w \in DOMAIN chunk_files[c] \cap W} :
           c \in DOMAIN chunk_files}

\* The previews the contract of search calls matches of q: posted under a word
\* of the master index that starts with the first term, with every term a
\* substring of lower(title + " " + artist).
Matches(q) ==
    LET terms == SearchTerms(Strip(Lower(q)))
        words == {master_index.words[k] : k \in 1..Len(master_index.words)}
    IN  {p \in PostedUnder({w \in words : StartsWith(w, terms[1])}) :
            \A n \in 1..Len(terms) : IsSubstring(terms[n], Lower(JoinSpace(p.t, p.a)))}

\* The previews the records of a response stand for.
Returned(resp) ==
    {[t |-> resp.records[k].TITLE, a |-> resp.records[k].ARTIST,
      i |-> resp.records[k]._originalIndex, s |-> resp.records[k]._superIndex] :
        k \in 1..Len(resp.records)}

Visited(q) ==
    LET matching_words == MatchingWords(master_index, Strip(Lower(q)))
    IN  VisitChunks(EmptyFn, chunk_files, RequiredChunks(master_index, matching_words),
                    matching_words)

\* Where the loops of search come upon original_index i for the first time.
FirstObserved(q, i) ==
    LET at == {k \in 1..Len(Visited(q)) : Visited(q)[k].i = i}
    IN  CHOOSE k \in at : \A j \in at : k <= j

\* C13: the records of a 200 response are in ascending _priority order,
\* records of equal _priority are in the order in which search first came upon
\* their original_index, and for max_results >= 0 there are exactly
\* min(max_results, number of distinct matching original_index values) of them.
C13_SortedStableAndCapped ==
    response.status = 200 /\ "records" \in DOMAIN response =>
        LET recs == response.records
            n    == Cardinality({p.i : p \in Matches(request.q)})
        IN  /\ \A k1, k2 \in 1..Len(recs) :
                  k1 < k2 =>
                      /\ recs[k1]._priority <= recs[k2]._priority
                      /\ recs[k1]._priority = recs[k2]._priority =>
                            FirstObserved(request.q, recs[k1]._originalIndex)
                                < FirstObserved(request.q, recs[k2]._originalIndex)
            /\ request.max_results >= 0 =>
                  Len(recs) = IF request.max_results < n THEN request.max_results ELSE n

\* C13 witness: a response holds two records of equal _priority after one of
\* lower _priority; and the cap cut a response short of its matches.
C13_Witness ==
    /\ response.status = 200
    /\ "records" \in DOMAIN response
    /\ Len(response.records) >= 3
    /\ response.records[1]._priority < response.records[2]._priority
    /\ response.records[2]._priority = response.records[3]._priority

\* C13 witness of the cap: fewer records than matches were returned.
C13_WitnessCap ==
    /\ response.status = 200
    /\ "records" \in DOMAIN response
    /\ request.max_results = 1
    /\ Len(response.records) = 1
    /\ Cardinality(Matches(request.q)) >= 2

\* C14: a search that arrives while the master index is not loaded answers
\* 503, and one that arrives with it loaded and a lowercased, trimmed query of
\* fewer than 2 characters answers 400; neither changes the shard cache (no
\* shard is loaded).
C14_ErrorsLeaveCacheAlone ==
    [][(master_index' = master_index /\ request' # NoRequest) =>
          LET query == Strip(Lower(request'.q))
          IN  /\ master_index = NoMaster =>
                    response'.status = 503 /\ chunk_cache' = chunk_cache
              /\ (master_index # NoMaster /\ Len(query) < 2) =>
                    response'.status = 400 /\ chunk_cache' = chunk_cache]_vars

\* C14 witness: a query of one character was answered 400 after earlier
\* searches had loaded shards into the cache.
C14_Witness ==
    /\ response.status = 400
    /\ Len(Strip(Lower(request.q))) = 1
    /\ chunk_cache # EmptyFn

\* C14 witness of the 503: a search was answered before the master index was
\* loaded.
C14_WitnessNotLoaded ==
    /\ response.status = 503
    /\ request # NoRequest
    /\ master_index = NoMaster

\* C15: once the stop flag is up while the fetch results are consumed (or
\* right after), no step of the run changes a _superIndex, the packer or any
\* file of the output folder, and the run only goes on to its end: the open
\* batch is not finalized, the super-archive pass and the index build do not
\* run, and the batch archives written stay.
C15_StopLeavesOpenBatch ==
    [][(should_stop /\ pc \in {"songs", "joined", "done"}) =>
          /\ superIndex' = superIndex
          /\ originalIndex' = originalIndex
          /\ processor' = processor
          /\ diskVars' = diskVars
          /\ pc' \in {"joined", "done"}]_vars

\* C15 witness: the run ended on the stop flag seen in the loop, before every
\* track was handed over, with a batch archive on disk and an open batch whose
\* tracks have no _superIndex; there are no super-archives and no index.
C15_Witness ==
    /\ pc = "done"
    /\ should_stop
    /\ finished = <<FALSE>>
    /\ Len(handed) < Len(all_records)
    /\ batch_files # EmptyFn
    /\ processor.current_batch_songs # <<>>
    /\ \A r \in BatchTracks(processor) : superIndex[r] = None /\ originalIndex[r] # None
    /\ karaoke_files = EmptyFn
    /\ master_file = NoMaster

\* Between packer calls, the open batch is not finalized and the finalized
\* tracks carry a super index that has been passed.
BatchIdentityAtRest ==
    /\ \A r \in BatchTracks(processor) :
          originalIndex[r] # None /\ superIndex[r] = None
    /\ \A r \in DOMAIN superIndex :
          superIndex[r] # None =>
              /\ superIndex[r] < processor.current_super_index
              /\ r \notin BatchTracks(processor)

\* A step that sets a _superIndex sets it once, to current_super_index as it
\* was before the step, for the whole open batch (with the track the step
\* adds), and moves current_super_index on, so that no later call gives the
\* same value.
BatchIdentityStep ==
    \A r \in DOMAIN superIndex :
        superIndex'[r] # superIndex[r] =>
            /\ superIndex[r] = None
            /\ superIndex'[r] = processor.current_super_index
            /\ processor'.current_super_index = processor.current_super_index + 1
            /\ \A r2 \in BatchTracks(processor) : superIndex'[r2] = superIndex'[r]

\* C16 as claimed: at every point between packer operations the tracks of the
\* open batch have _originalIndex set and _superIndex unset, every finalized
\* track has the super index of its finalization, and the tracks that share a
\* _superIndex were finalized by one _finalize_batch call.
C16_BatchIdentityAtomic ==
    []BatchIdentityAtRest /\ [][BatchIdentityStep]_vars

\* The last process_song call returned (True or False) rather than raised: no
\* write has failed, or the call rejected its track.
LastCallReturned ==
    /\ pc \in {"songs", "joined"}
    /\ handed # <<>>
    /\ (batch_write_failed = None \/ originalIndex[handed[Len(handed)]] = None)

\* The super indices of the batches finalized so far.
FinalizedBatches == {superIndex[r] : r \in DOMAIN superIndex} \ {None}

\* C17 as claimed: after a process_song call returns, the open batch holds
\* fewer than batch_size songs and, with create_zips, fewer than limit_bytes
\* bytes; a finalized batch holds between 1 and batch_size songs.
C17_OpenBatchBelowTriggers ==
    /\ LastCallReturned =>
          /\ Len(processor.current_batch_songs) < processor.batch_size
          /\ processor.create_zips =>
                processor.current_zip_size < processor.limit_bytes
    /\ \A s \in FinalizedBatches :
          Cardinality(TracksOfBatch(s)) \in 1..processor.batch_size
    /\ \A s \in 0..(processor.current_super_index - 1) : TracksOfBatch(s) # {}

\* How many accepted tracks were handed to process_song before handed[n].
AcceptedBefore(n) == Cardinality({j \in 1..(n - 1) : originalIndex[handed[j]] # None})

\* The byte trigger never fired: no archives are made, or every batch archive
\* written is below limit_bytes or holds batch_size songs (ended by the count).
ByteTriggerNeverFired ==
    ~config.create_zips \/
    \A s \in DOMAIN batch_files :
        \/ SumSizes(batch_files[s]) < processor.limit_bytes
        \/ Len(batch_files[s]) >= processor.batch_size

\* C18 as claimed: when the byte trigger never fired, right after
\* finalize_remaining_batch the k-th accepted track (k from 0, in the order
\* of the process_song calls) has _originalIndex = k and _superIndex =
\* k \div batch_size, and n accepted tracks made ceil(n / batch_size) batches.
C18_IdentityByCount ==
    (pc = "archive" /\ ByteTriggerNeverFired) =>
        /\ \A n \in 1..Len(handed) :
              originalIndex[handed[n]] # None =>
                  /\ originalIndex[handed[n]] = AcceptedBefore(n)
                  /\ superIndex[handed[n]] = AcceptedBefore(n) \div processor.batch_size
        /\ processor.current_super_index =
              (Cardinality(Accepted) + processor.batch_size - 1) \div processor.batch_size
        /\ Cardinality(FinalizedBatches) = processor.current_super_index

\* The bundles process_song can be called with: None, or a dict with some of
\* the four keys.
AnyFiles ==
    {NoFiles} \cup
    {[keys |-> K, size |-> n] :
        K \in SUBSET {"midi", "lyr", "cur", "emk"} \ {{}}, n \in {1, MaxBlob}}

\* The rejection conditions of the packer's contract.
IsRejected(track, files) ==
    \/ files = NoFiles
    \/ track.SUB_TYPE \notin {"EMK", "NCN"}
    \/ track.SUB_TYPE = "NCN" /\ {"midi", "lyr", "cur"} \ files.keys # {}
    \/ track.SUB_TYPE = "EMK" /\ "emk" \notin files.keys

\* C19: in every state of the packer, process_song on a track that is
\* rejected returns False and changes nothing: the counters, the open batch,
\* the byte total, the archive being written and the identity fields of every
\* track stay as they are.
C19_RejectionChangesNothing ==
    \A r \in Tracks \ Handed, files \in AnyFiles, write_ok \in BOOLEAN :
        IsRejected(all_records[r], files) =>
            ProcessSong(World, r, all_records[r], files, write_ok)
                = [World EXCEPT !.ret = FALSE]

\* C19 witness: process_song has rejected a track for its SUB_TYPE while the
\* batch was open with a song in it, and the batch is as it was.
C19_Witness ==
    /\ pc = "songs"
    /\ Len(handed) >= 2
    /\ originalIndex[handed[Len(handed) - 1]] # None
    /\ all_records[handed[Len(handed)]].SUB_TYPE = "MID"
    /\ originalIndex[handed[Len(handed)]] = None
    /\ superIndex[handed[Len(handed)]] = None
    /\ Len(processor.current_batch_songs) = 1
    /\ processor.current_original_index = Cardinality(Accepted)

\* C20: when create_karaoke_archives has returned, every batch archive that
\* was in the output folder is, unaltered, a member of exactly one
\* karaoke_<k>.zip, no batch archive is left in the folder, the numbers k are
\* 0..n-1, and a super-archive of lower number holds the batch archives of
\* lower numbers.
C20_EveryBatchArchivePackedOnce ==
    [][(pc = "archive" /\ pc' = "index" /\ config.create_zips) =>
          /\ \A s \in DOMAIN batch_files :
                /\ Cardinality({k \in DOMAIN karaoke_files' :
                                   s \in DOMAIN karaoke_files'[k]}) = 1
                /\ \A k \in DOMAIN karaoke_files' :
                      s \in DOMAIN karaoke_files'[k] =>
                          karaoke_files'[k][s] = batch_files[s]
          /\ \A k \in DOMAIN karaoke_files' :
                /\ DOMAIN karaoke_files'[k] # {}
                /\ DOMAIN karaoke_files'[k] \subseteq DOMAIN batch_files
          /\ batch_files' = EmptyFn
          /\ DOMAIN karaoke_files' = 0..(Cardinality(DOMAIN karaoke_files') - 1)
          /\ \A k1, k2 \in DOMAIN karaoke_files' :
                k1 < k2 =>
                    \A s1 \in DOMAIN karaoke_files'[k1], s2 \in DOMAIN karaoke_files'[k2] :
                        s1 < s2]_vars

\* C20 witness: create_karaoke_archives has returned after packing three
\* batch archives into two super-archives.
C20_Witness ==
    /\ pc = "index"
    /\ config.create_zips
    /\ batch_files = EmptyFn
    /\ Cardinality(DOMAIN karaoke_files) = 2
    /\ Cardinality(DOMAIN karaoke_files[0]) = 2
    /\ Cardinality(DOMAIN karaoke_files[1]) = 1

\* The posting-list sizes of the words master_file.words[1..k] that are in the
\* shard of words[k], added up.
RECURSIVE RunningShardSize(_, _)
RunningShardSize(k, j) ==
    IF j = 0 THEN 0
    ELSE LET words == master_file.words
             map   == master_file.wordToChunkMap
         IN  (IF map[words[j]] = map[words[k]]
              THEN EntrySize(chunk_files[map[words[k]]][words[j]]) ELSE 0)
             + RunningShardSize(k, j - 1)

\* C21: in a built index the first word is in shard 0 and each next word of
\* the sorted list is in the next shard exactly when the posting-list sizes of
\* the current shard plus its own exceed ShardMaxBytes (the current shard is
\* never empty then), else in the same shard; the shard files are 0..n-1 and
\* none is empty.
C21_NewShardExactlyOnOverflow ==
    master_file # NoMaster =>
        LET words == master_file.words
            map   == master_file.wordToChunkMap
        IN  /\ words # <<>> => map[words[1]] = 0
            /\ \A k \in 1..(Len(words) - 1) :
                  LET size == EntrySize(chunk_files[map[words[k + 1]]][words[k + 1]])
                  IN  IF RunningShardSize(k, k) + size > ShardMaxBytes
                      THEN map[words[k + 1]] = map[words[k]] + 1
                      ELSE map[words[k + 1]] = map[words[k]]
            /\ DOMAIN chunk_files = 0..(Cardinality(DOMAIN chunk_files) - 1)
            /\ \A c \in DOMAIN chunk_files : DOMAIN chunk_files[c] # {}

\* C21 witness: an index was built with a shard of two words that fill the
\* ceiling exactly and a further shard after it.
C21_Witness ==
    /\ master_file # NoMaster
    /\ Cardinality(DOMAIN chunk_files) >= 2
    /\ \E k \in 2..(Len(master_file.words) - 1) :
          /\ master_file.wordToChunkMap[master_file.words[k]]
                = master_file.wordToChunkMap[master_file.words[k - 1]]
          /\ RunningShardSize(k, k) = ShardMaxBytes
          /\ master_file.wordToChunkMap[master_file.words[k + 1]]
                = master_file.wordToChunkMap[master_file.words[k]] + 1

\* C22 as claimed: in every posting list of every shard file the preview
\* records are in the packer's insertion order, ascending in original_index.
C22_PostingsInPackerOrder ==
    \A c \in DOMAIN chunk_files :
        \A w \in DOMAIN chunk_files[c] :
            \A k1, k2 \in 1..Len(chunk_files[c][w]) :
                k1 < k2 => chunk_files[c][w][k1].i <= chunk_files[c][w][k2].i

\* The tracks of a sequence of batch songs or archive entries are in ascending
\* order of the given key.
Ascending(keys) == \A k1, k2 \in 1..Len(keys) : k1 < k2 => keys[k1] < keys[k2]

\* What C23 says of a state of the consumption loop.
AcceptanceFollowsCompletion ==
    /\ Accepted = resolved
    /\ {originalIndex[r] : r \in Accepted} = 0..(Cardinality(Accepted) - 1)
    /\ \A n \in 1..Len(handed) :
          originalIndex[handed[n]] # None =>
              originalIndex[handed[n]] = AcceptedBefore(n)
    /\ Ascending([k \in 1..Len(processor.current_batch_songs) |->
                    originalIndex[processor.current_batch_songs[k].track]])
    /\ \A s \in DOMAIN batch_files :
          Ascending([k \in 1..Len(batch_files[s]) |-> batch_files[s][k].stem])

\* What C23 says of a step: one result at a time is handed to process_song.
OneResultAtATime ==
    \/ handed' = handed
    \/ \E r \in Tracks \ Handed : handed' = Append(handed, r)

\* C23 as claimed: for every order of fetch completions, process_song gets one
\* result at a time, the accepted tracks are exactly the resolvable ones that
\* were handed over, their original indices are 0..n-1 in completion order,
\* and the open batch and every batch archive hold their tracks in that order.
C23_CompletionOrderIdentity ==
    []AcceptanceFollowsCompletion /\ [][OneResultAtATime]_vars

\* A value get_chunk returns that is not None is the content of the shard file.
ReturnedChunksAreFiles ==
    \A h \in Handlers :
        (get_chunk_calls[h].pc = "returned" /\ get_chunk_calls[h].chunk_data # EmptyFn) =>
            /\ get_chunk_calls[h].chunk_id \in DOMAIN chunk_files
            /\ get_chunk_calls[h].chunk_data = chunk_files[get_chunk_calls[h].chunk_id]

\* No step removes a cached shard or changes its content, and a step in which
\* a call ends with None leaves the cache as it is.
CacheOnlyGrows ==
    /\ \A c \in DOMAIN chunk_cache :
          c \in DOMAIN chunk_cache' /\ chunk_cache'[c] = chunk_cache[c]
    /\ \A h \in Handlers :
          (get_chunk_calls[h].pc = "load" /\ get_chunk_calls'[h].pc = "returned") =>
              /\ get_chunk_calls'[h].chunk_data = EmptyFn
              /\ chunk_cache' = chunk_cache

\* C24: under every interleaving of get_chunk calls, a value returned that is
\* not None is the content of the shard's file, a cached entry is never
\* removed or given other content, and a failed load returns None and leaves
\* the cache unchanged.
C24_ConcurrentGetChunk ==
    []ReturnedChunksAreFiles /\ [][CacheOnlyGrows]_vars

\* C24 witness: two handlers missed the cache and loaded the same shard; one
\* has stored and returned it, the other is about to store it again.
C24_Witness ==
    \E h1, h2 \in Handlers :
        /\ h1 # h2
        /\ get_chunk_calls[h1].chunk_id = get_chunk_calls[h2].chunk_id
        /\ get_chunk_calls[h1].pc = "returned"
        /\ get_chunk_calls[h1].chunk_data # EmptyFn
        /\ get_chunk_calls[h2].pc = "store"
        /\ get_chunk_calls[h1].chunk_id \in DOMAIN chunk_cache

\* The scores of the matching postings of original_index i for the request.
ScoresOf(i) ==
    LET query == Strip(Lower(request.q))
    IN  {CalculateScore(p, query, SearchTerms(query)) :
            p \in {m \in Matches(request.q) : m.i = i}}

\* C25: a 200 response holds at most one record for an original_index, and
\* the _priority of the record is the least score among the matching postings
\* of that original_index.
C25_OneRecordWithLeastScore ==
    response.status = 200 /\ "records" \in DOMAIN response =>
        LET recs == response.records
        IN  /\ \A k1, k2 \in 1..Len(recs) :
                  recs[k1]._originalIndex = recs[k2]._originalIndex => k1 = k2
            /\ \A k \in 1..Len(recs) :
                  /\ recs[k]._priority \in ScoresOf(recs[k]._originalIndex)
                  /\ \A x \in ScoresOf(recs[k]._originalIndex) : recs[k]._priority <= x

\* C25 witness: a record was returned for an original_index whose matching
\* postings have different scores, the least of them met after a higher one.
C25_Witness ==
    /\ response.status = 200
    /\ "records" \in DOMAIN response
    /\ \E k \in 1..Len(response.records) :
          LET i == response.records[k]._originalIndex
              first == Visited(request.q)[FirstObserved(request.q, i)]
              query == Strip(Lower(request.q))
          IN  /\ Cardinality(ScoresOf(i)) >= 2
              /\ first \in Matches(request.q)
              /\ CalculateScore(first, query, SearchTerms(query))
                    > response.records[k]._priority

\* The condition of row n of the score table on the lowercased title and
\* artist, for the lowercased, trimmed query q.
RowHolds(n, title, artist, q) ==
    LET terms == SearchTerms(q)
        EveryTermIn(text) == \A k \in 1..Len(terms) : IsSubstring(terms[k], text)
    IN  CASE n = 1 -> title = q
          [] n = 2 -> Len(q) <= Len(title) /\ SubSeq(title, 1, Len(q)) = q
          [] n = 3 -> EveryTermIn(title)
          [] n = 4 -> EveryTermIn(artist)
          [] n = 5 -> EveryTermIn(title \o <<" ">> \o artist)

\* C26: the _priority of every record of a 200 response is the number of the
\* first row of the score table whose condition holds for the record and the
\* query (99 when none holds).
C26_ScoreIsFirstRowThatHolds ==
    response.status = 200 /\ "records" \in DOMAIN response =>
        \A k \in 1..Len(response.records) :
            LET rec  == response.records[k]
                rows == {n \in 1..5 : RowHolds(n, Lower(rec.TITLE), Lower(rec.ARTIST),
                                               Strip(Lower(request.q)))}
            IN  IF rows = {} THEN rec._priority = 99
                ELSE /\ rec._priority \in rows
                     /\ \A n \in rows : rec._priority <= n

\* C26 witness: for the query "ab" the track titled "Ab" was returned with
\* score 1, ahead of a track whose title starts with "ab", with score 2.
C26_Witness ==
    /\ response.status = 200
    /\ Strip(Lower(request.q)) = <<"a", "b">>
    /\ Len(response.records) >= 2
    /\ response.records[1]._priority = 1
    /\ Lower(response.records[1].TITLE) = <<"a", "b">>
    /\ response.records[2]._priority = 2
    /\ Len(response.records[2].TITLE) > 2
\* ------------------------------------------------------------ parse_records
\* The bytes of a DBF file: "*" is 0x2A, " " is any other byte.
Bytes == {"*", " "}

\* Every file of at most MaxBufferLen bytes.
FileBuffers == UNION {[1..n -> Bytes] : n \in 0..MaxBufferLen}

\* The headers parse_header returns on them: record_length is 1 + the sum of
\* the field lengths, so it is positive.
Headers ==
    [record_count : 0..NumTracks,
     header_length : 0..MaxHeaderLength,
     record_length : 1..MaxRecordLength]

\* Record i of the file decodes to the catalog's record i + 1.
RowsOf(h) == [k \in 1..h.record_count |-> Catalog[((k - 1) % Len(Catalog)) + 1]]

\* run has read a DBF file and is about to parse it.
InitParse ==
    \E b \in FileBuffers, h \in Headers :
        /\ dbf = [file_buffer |-> b, header |-> h, rows |-> RowsOf(h)]
        /\ config = [batch_size |-> MaxBatchSize, limit_bytes |-> MaxLimit,
                     create_zips |-> TRUE]
        /\ all_records = <<>>
        /\ originalIndex = EmptyFn
        /\ superIndex = EmptyFn
        /\ pc = "parse"
        /\ should_stop = FALSE
        /\ finished = <<>>
        /\ handed = <<>>
        /\ resolved = {}
        /\ processed_count = 0
        /\ processor = NewProcessor(MaxBatchSize, MaxLimit, TRUE)
        /\ batch_files = EmptyFn
        /\ karaoke_files = EmptyFn
        /\ chunk_files = EmptyFn
        /\ master_file = NoMaster
        /\ index_zip = FALSE
        /\ batch_write_failed = None
        /\ master_index = NoMaster
        /\ chunk_cache = EmptyFn
        /\ response = NoResponse
        /\ request = NoRequest
        /\ get_chunk_calls = [h2 \in Handlers |-> NoCall]

ParseNext == ParseRecordsCall

ParseSpec == InitParse /\ [][ParseNext]_vars

\* Record i would overrun the buffer.
Overruns(i) ==
    dbf.header.header_length + (i + 1) * dbf.header.record_length
        > Len(dbf.file_buffer)

\* The records before the first one that overruns.
BeforeOverrun ==
    {i \in 0..(dbf.header.record_count - 1) : \A j \in 0..i : ~Overruns(j)}

\* The first byte of record i is 0x2A.
IsDeleted(i) ==
    dbf.file_buffer[dbf.header.header_length + i * dbf.header.record_length + 1] = "*"

\* The record indices the parser should keep.
Kept == {i \in BeforeOverrun : ~IsDeleted(i)}

\* How many kept records come before record i, plus one: its place.
PlaceOf(i) == Cardinality({j \in Kept : j < i}) + 1

C28_FinishedExactlyOnce == pc = "done" => Len(finished) = 1
====
